---- MODULE Spec2Model ----
(***************************************************************************)
(* A model of pipeline::Pipeline (include/pipeline_builder.hpp): the typed *)
(* stage builder (add_stage, join), the type-erased result store, and the  *)
(* multi-threaded scheduler inside Pipeline::run.                          *)
(***************************************************************************)
EXTENDS Integers, Sequences, FiniteSets, TLC

\* ------------------------------------------------------------------ bounds
\* largest num_threads passed to run, and largest hardware_concurrency()
MaxThreads == 2
\* number of run() invocations made on one pipeline
MaxRuns == 2
\* number of add_stage / join calls made by the free builder (SpecBuild)
MaxCalls == 3

\* ------------------------------------------------------------------- types
\* std::any remembers the static type of what it holds.  A type is <<"int">>
\* or <<"pair", A, B>> (std::pair<A, B>); a value is <<n>> or <<a, b>>.
IntT == <<"int">>
PairT(A, B) == <<"pair", A, B>>
IntV(n) == <<n>>
PairV(a, b) == <<a, b>>
\* the type tags a caller writes on a hand-made Port<T>{id}
PortTypes == {IntT, PairT(IntT, IntT)}

\* The user functions of test/pipeline_tests.cpp, and two that throw.
SourceFuncs == {"src", "boom0"}
UnaryFuncs == {"incr", "triple", "sum", "boom"}

\* the parameter type of a unary function: add_stage deduces In from the
\* port and requires std::invocable<F, const In &>
InType(func) == IF func = "sum" THEN PairT(IntT, IntT) ELSE IntT

Throws(func) == func \in {"boom0", "boom"}

\* std::invoke(func, input)
Invoke(func, input) ==
    CASE func = "src" -> IntV(5)
      [] func = "incr" -> IntV(input[1] + 1)
      [] func = "triple" -> IntV(input[1] * 3)
      [] func = "sum" -> IntV(input[1][1] + input[2][1])
      [] OTHER -> IntV(0)

\* ------------------------------------------------------------------ stages
Stage0(stage, func) ==
    [kind |-> "Stage0", stage |-> stage, func |-> func,
     deps |-> <<>>, ins |-> <<>>]

Stage1(stage, input, func, In) ==
    [kind |-> "Stage1", stage |-> stage, func |-> func,
     deps |-> <<input>>, ins |-> <<In>>]

JoinStage(stage, in1, in2, In1, In2) ==
    [kind |-> "JoinStage", stage |-> stage, func |-> "pair",
     deps |-> <<in1, in2>>, ins |-> <<In1, In2>>]

Port(id, T) == [id |-> id, type |-> T]

\* ------------------------------------------------------------------ errors
Unexpected(e) == [kind |-> "error", err |-> e, id |-> "", val |-> <<>>, type |-> <<>>]
OkPort(id, T) == [kind |-> "port", err |-> "", id |-> id, val |-> <<>>, type |-> T]
OkValue(v) == [kind |-> "value", err |-> "", id |-> "", val |-> v, type |-> <<>>]
NoResult == [kind |-> "none", err |-> "", id |-> "", val |-> <<>>, type |-> <<>>]

\* ----------------------------------------------------------------- builder
\* A pipeline's four maps, as one record G; each map is a function whose
\* DOMAIN is its key set (std::unordered_map).
EmptyGraph ==
    [stages |-> <<>>, downstream_edges |-> <<>>,
     upstream_edges |-> <<>>, in_degree |-> <<>>]

\* unordered_map::try_emplace(k, v): inserts only when k is absent
TryEmplace(m, k, v) == IF k \in DOMAIN m THEN m ELSE (k :> v) @@ m

\* m.at(k).push_back(x)
PushBack(m, k, x) == [m EXCEPT ![k] = Append(@, x)]

\* a registration whose in-degree entry starts at 1
Register_one(G, id, st) ==
    [stages |-> TryEmplace(G.stages, id, st),
     downstream_edges |-> TryEmplace(G.downstream_edges, id, <<>>),
     upstream_edges |-> TryEmplace(G.upstream_edges, id, <<>>),
     in_degree |-> TryEmplace(G.in_degree, id, 1)]

\* a registration that leaves in_degree without the new key
Register_no_in_degree(G, id, st) ==
    [stages |-> TryEmplace(G.stages, id, st),
     downstream_edges |-> TryEmplace(G.downstream_edges, id, <<>>),
     upstream_edges |-> TryEmplace(G.upstream_edges, id, <<>>),
     in_degree |-> G.in_degree]

\* the three try_emplace/emplace lines every constructor starts with
Register(G, id, st) ==
    [stages |-> TryEmplace(G.stages, id, st),
     downstream_edges |-> TryEmplace(G.downstream_edges, id, <<>>),
     upstream_edges |-> TryEmplace(G.upstream_edges, id, <<>>),
     in_degree |-> TryEmplace(G.in_degree, id, 0)]

\* add_stage(id, func): a source
add_source(G, id, func) ==
    IF id \in DOMAIN G.stages
    THEN [g |-> G, ret |-> Unexpected("StageAlreadyExists")]
    ELSE [g |-> Register(G, id, Stage0(id, func)), ret |-> OkPort(id, IntT)]

\* add_stage that registers the key before it validates the upstream port
add_stage_early(G, id, func, upstream) ==
    IF id \in DOMAIN G.stages
    THEN [g |-> G, ret |-> Unexpected("StageAlreadyExists")]
    ELSE LET R == Register(G, id, Stage1(id, upstream.id, func, upstream.type))
         IN IF upstream.id \notin DOMAIN G.stages
            THEN [g |-> R, ret |-> Unexpected("UnknownStage")]
            ELSE [g |-> [stages |-> R.stages,
                         downstream_edges |-> PushBack(R.downstream_edges, upstream.id, id),
                         upstream_edges |-> PushBack(R.upstream_edges, id, upstream.id),
                         in_degree |-> [R.in_degree EXCEPT ![id] = @ + 1]],
                  ret |-> OkPort(id, IntT)]

\* add_stage that looks its upstream port up after registering its own key
add_stage_late(G, id, func, upstream) ==
    IF id \in DOMAIN G.stages
    THEN [g |-> G, ret |-> Unexpected("StageAlreadyExists")]
    ELSE LET R == Register(G, id, Stage1(id, upstream.id, func, upstream.type))
         IN IF upstream.id \notin DOMAIN R.stages
            THEN [g |-> G, ret |-> Unexpected("UnknownStage")]
            ELSE [g |-> [stages |-> R.stages,
                         downstream_edges |-> PushBack(R.downstream_edges, upstream.id, id),
                         upstream_edges |-> PushBack(R.upstream_edges, id, upstream.id),
                         in_degree |-> [R.in_degree EXCEPT ![id] = @ + 1]],
                  ret |-> OkPort(id, IntT)]

\* add_stage(id, func, upstream): a unary stage
add_stage(G, id, func, upstream) ==
    IF id \in DOMAIN G.stages
    THEN [g |-> G, ret |-> Unexpected("StageAlreadyExists")]
    ELSE IF upstream.id \notin DOMAIN G.stages
    THEN [g |-> G, ret |-> Unexpected("UnknownStage")]
    ELSE LET R == Register(G, id, Stage1(id, upstream.id, func, upstream.type))
         IN [g |-> [stages |-> R.stages,
                    downstream_edges |-> PushBack(R.downstream_edges, upstream.id, id),
                    upstream_edges |-> PushBack(R.upstream_edges, id, upstream.id),
                    in_degree |-> [R.in_degree EXCEPT ![id] = @ + 1]],
             ret |-> OkPort(id, IntT)]

\* join that validates only its first port
join_unchecked(G, id, in1, in2) ==
    IF id \in DOMAIN G.stages
    THEN [g |-> G, ret |-> Unexpected("StageAlreadyExists")]
    ELSE IF in1.id \notin DOMAIN G.stages
    THEN [g |-> G, ret |-> Unexpected("UnknownStage")]
    ELSE LET R == Register(G, id, JoinStage(id, in1.id, in2.id, in1.type, in2.type))
         IN [g |-> [stages |-> R.stages,
                    downstream_edges |->
                        PushBack(PushBack(R.downstream_edges, in1.id, id), in2.id, id),
                    upstream_edges |->
                        PushBack(PushBack(R.upstream_edges, id, in1.id), id, in2.id),
                    in_degree |-> [R.in_degree EXCEPT ![id] = @ + 2]],
             ret |-> OkPort(id, PairT(in1.type, in2.type))]

\* join that records one downstream edge when both ports name the same key
join_once(G, id, in1, in2) ==
    IF id \in DOMAIN G.stages
    THEN [g |-> G, ret |-> Unexpected("StageAlreadyExists")]
    ELSE IF in1.id \notin DOMAIN G.stages
    THEN [g |-> G, ret |-> Unexpected("UnknownStage")]
    ELSE IF in2.id \notin DOMAIN G.stages
    THEN [g |-> G, ret |-> Unexpected("UnknownStage")]
    ELSE LET R == Register(G, id, JoinStage(id, in1.id, in2.id, in1.type, in2.type))
             D1 == PushBack(R.downstream_edges, in1.id, id)
         IN [g |-> [stages |-> R.stages,
                    downstream_edges |->
                        IF in1.id = in2.id THEN D1 ELSE PushBack(D1, in2.id, id),
                    upstream_edges |->
                        PushBack(PushBack(R.upstream_edges, id, in1.id), id, in2.id),
                    in_degree |-> [R.in_degree EXCEPT ![id] = @ + 2]],
             ret |-> OkPort(id, PairT(in1.type, in2.type))]

\* join(id, in1, in2)
join(G, id, in1, in2) ==
    IF id \in DOMAIN G.stages
    THEN [g |-> G, ret |-> Unexpected("StageAlreadyExists")]
    ELSE IF in1.id \notin DOMAIN G.stages
    THEN [g |-> G, ret |-> Unexpected("UnknownStage")]
    ELSE IF in2.id \notin DOMAIN G.stages
    THEN [g |-> G, ret |-> Unexpected("UnknownStage")]
    ELSE LET R == Register(G, id, JoinStage(id, in1.id, in2.id, in1.type, in2.type))
         IN [g |-> [stages |-> R.stages,
                    downstream_edges |->
                        PushBack(PushBack(R.downstream_edges, in1.id, id), in2.id, id),
                    upstream_edges |->
                        PushBack(PushBack(R.upstream_edges, id, in1.id), id, in2.id),
                    in_degree |-> [R.in_degree EXCEPT ![id] = @ + 2]],
             ret |-> OkPort(id, PairT(in1.type, in2.type))]

\* one builder call, as data: op is "source", "unary" or "join"
SourceCall(id, func) == [op |-> "source", id |-> id, func |-> func, ports |-> <<>>]
UnaryCall(id, func, p) == [op |-> "unary", id |-> id, func |-> func, ports |-> <<p>>]
JoinCall(id, p1, p2) == [op |-> "join", id |-> id, func |-> "pair", ports |-> <<p1, p2>>]

ApplyCall(G, c) ==
    CASE c.op = "source" -> add_source(G, c.id, c.func)
      [] c.op = "unary" -> add_stage(G, c.id, c.func, c.ports[1])
      [] OTHER -> join(G, c.id, c.ports[1], c.ports[2])

RECURSIVE Build(_)
\* the pipeline a sequence of builder calls leaves, failed calls included
Build(calls) ==
    IF calls = <<>> THEN EmptyGraph
    ELSE ApplyCall(Build(SubSeq(calls, 1, Len(calls) - 1)), calls[Len(calls)]).g

\* ------------------------------------------------------- stage execution
\* std::any_cast<const T &>(context.stage_results.at(key)): "ok", or the
\* exception thrown
AnyCast(store, key, T) ==
    IF key \notin DOMAIN store THEN "out_of_range"
    ELSE IF store[key].type # T THEN "bad_any_cast"
    ELSE "ok"

\* Stage0::run up to its store write: the value to publish, or what it threw
Stage0_run(st, store) ==
    IF Throws(st.func) THEN [threw |-> "user", type |-> <<>>, val |-> <<>>]
    ELSE [threw |-> "", type |-> IntT, val |-> Invoke(st.func, <<>>)]

\* Stage1::run up to its store write
Stage1_run(st, store) ==
    LET c == AnyCast(store, st.deps[1], st.ins[1])
    IN IF c # "ok" THEN [threw |-> c, type |-> <<>>, val |-> <<>>]
       ELSE IF Throws(st.func) THEN [threw |-> "user", type |-> <<>>, val |-> <<>>]
       ELSE [threw |-> "", type |-> IntT,
             val |-> Invoke(st.func, store[st.deps[1]].val)]

\* JoinStage::run building the pair the wrong way round
JoinStage_run_swapped(st, store) ==
    LET c1 == AnyCast(store, st.deps[1], st.ins[1])
        c2 == AnyCast(store, st.deps[2], st.ins[2])
    IN IF c1 # "ok" THEN [threw |-> c1, type |-> <<>>, val |-> <<>>]
       ELSE IF c2 # "ok" THEN [threw |-> c2, type |-> <<>>, val |-> <<>>]
       ELSE [threw |-> "", type |-> PairT(st.ins[1], st.ins[2]),
             val |-> PairV(store[st.deps[2]].val, store[st.deps[1]].val)]

\* JoinStage::run up to its store write
JoinStage_run(st, store) ==
    LET c1 == AnyCast(store, st.deps[1], st.ins[1])
        c2 == AnyCast(store, st.deps[2], st.ins[2])
    IN IF c1 # "ok" THEN [threw |-> c1, type |-> <<>>, val |-> <<>>]
       ELSE IF c2 # "ok" THEN [threw |-> c2, type |-> <<>>, val |-> <<>>]
       ELSE [threw |-> "", type |-> PairT(st.ins[1], st.ins[2]),
             val |-> PairV(store[st.deps[1]].val, store[st.deps[2]].val)]

\* the virtual call stages.at(curr)->run(context), up to the store write
IStage_run(st, store) ==
    CASE st.kind = "Stage0" -> Stage0_run(st, store)
      [] st.kind = "Stage1" -> Stage1_run(st, store)
      [] OTHER -> JoinStage_run(st, store)

\* context.stage_results[stage] = result
StoreWrite(store, key, r) ==
    [k \in DOMAIN store \cup {key} |->
        IF k = key THEN [type |-> r.type, val |-> r.val] ELSE store[k]]

\* ------------------------------------------------------ upstream closure
RECURSIVE VisitNeighbors(_, _, _)
\* the for loop of get_all_upstream_stages over upstream_edges.at(curr)
VisitNeighbors(neighbors, graph, frontier) ==
    IF neighbors = <<>> THEN [graph |-> graph, frontier |-> frontier]
    ELSE LET nb == Head(neighbors)
         IN IF nb \in graph
            THEN VisitNeighbors(Tail(neighbors), graph, frontier)
            ELSE VisitNeighbors(Tail(neighbors), graph \cup {nb}, Append(frontier, nb))

RECURSIVE Bfs(_, _, _)
\* the while loop of get_all_upstream_stages
Bfs(up, graph, frontier) ==
    IF frontier = <<>> THEN [ok |-> TRUE, graph |-> graph]
    ELSE LET c == Head(frontier)
         IN IF c \notin DOMAIN up THEN [ok |-> FALSE, graph |-> {}]
            ELSE LET v == VisitNeighbors(up[c], graph, Tail(frontier))
                 IN Bfs(up, v.graph, v.frontier)

\* a closure that takes every registered stage instead of the upstream ones
get_all_upstream_stages_all(up, key) ==
    IF key \in DOMAIN up THEN [ok |-> TRUE, graph |-> DOMAIN up]
    ELSE [ok |-> FALSE, graph |-> {}]

\* a closure that is empty, instead of an error, for an unregistered key
get_all_upstream_stages_lax(up, key) ==
    IF key \in DOMAIN up THEN Bfs(up, {key}, <<key>>)
    ELSE [ok |-> TRUE, graph |-> {}]

\* get_all_upstream_stages(key): breadth-first from key along upstream_edges
get_all_upstream_stages(up, key) == Bfs(up, {key}, <<key>>)

\* --------------------------------------------------- downstream update
RECURSIVE MakeReady_distinct(_, _, _, _)
\* the downstream loop visiting each distinct downstream key once
MakeReady_distinct(ds, S, indeg, rdy) ==
    IF ds = <<>> THEN [indeg |-> indeg, ready |-> rdy]
    ELSE LET d == Head(ds)
         IN IF d \in S /\ \A i \in DOMAIN Tail(ds) : Tail(ds)[i] # d
            THEN LET i2 == [indeg EXCEPT ![d] = @ - 1]
                 IN MakeReady_distinct(Tail(ds), S, i2,
                                       IF i2[d] = 0 THEN Append(rdy, d) ELSE rdy)
            ELSE MakeReady_distinct(Tail(ds), S, indeg, rdy)

RECURSIVE MakeReady_nozero(_, _, _, _)
\* the downstream loop pushing a key at every decrement
MakeReady_nozero(ds, S, indeg, rdy) ==
    IF ds = <<>> THEN [indeg |-> indeg, ready |-> rdy]
    ELSE LET d == Head(ds)
         IN IF d \in S
            THEN LET i2 == [indeg EXCEPT ![d] = @ - 1]
                 IN MakeReady_nozero(Tail(ds), S, i2, Append(rdy, d))
            ELSE MakeReady_nozero(Tail(ds), S, indeg, rdy)

RECURSIVE MakeReady(_, _, _, _)
\* the for loop over downstream_edges.at(curr), run under the scheduler mutex
MakeReady(ds, S, indeg, rdy) ==
    IF ds = <<>> THEN [indeg |-> indeg, ready |-> rdy]
    ELSE LET d == Head(ds)
         IN IF d \in S
            THEN LET i2 == [indeg EXCEPT ![d] = @ - 1]
                 IN MakeReady(Tail(ds), S, i2,
                              IF i2[d] = 0 THEN Append(rdy, d) ELSE rdy)
            ELSE MakeReady(Tail(ds), S, indeg, rdy)

\* the wait predicate of the worker loop
WaitPredicate(f, rdy, remaining) == f \/ rdy # <<>> \/ remaining = 0

\* the test after the wait: leave the loop?
ShouldExit(f, remaining) == f \/ remaining = 0

\* the thread-count test without its num_threads == 0 case
InvalidThreadCount_nozero(n, hw) == hw # 0 /\ n > hw

\* the thread-count test at the top of run
InvalidThreadCount(n, hw) == n = 0 \/ (hw # 0 /\ n > hw)

\* the initialisation loop without its in-degree test
InitiallyReady_all(S, indeg) == S

\* context.stage_results.clear() that keeps the entries
clear_keeping(store) == store

\* context.stage_results.clear()
clear(store) == <<>>

\* the keys the initialisation loop of run pushes into ready
InitiallyReady(S, indeg) == {k \in S : indeg[k] = 0}

\* the final read of the target's value without the type test of any_cast
FetchResult_unchecked(store, port) ==
    IF port.id \in DOMAIN store THEN OkValue(store[port.id].val)
    ELSE Unexpected("UnknownStage")

\* the final std::any_cast<T>(context.stage_results.at(stage.id))
FetchResult(store, port) ==
    LET c == AnyCast(store, port.id, port.type)
    IN CASE c = "ok" -> OkValue(store[port.id].val)
         [] c = "bad_any_cast" -> Unexpected("TypeMismatch")
         [] OTHER -> Unexpected("UnknownStage")

\* run's return without the test of failed
RunResult_ignoring_failed(f, store, port) == FetchResult(store, port)

\* what run returns once the threads are joined
RunResult(f, store, port) ==
    IF f THEN Unexpected("RuntimeError") ELSE FetchResult(store, port)

\* ------------------------------------------------------------------- state
VARIABLES
    stages, downstream_edges, upstream_edges, in_degree,  \* Pipeline's maps
    stage_results,      \* context.stage_results
    add_call, add_ret,  \* the last builder call and what it returned
    ncalls,             \* builder calls made so far
    hc,                 \* std::thread::hardware_concurrency()
    ctx_mut,            \* context.mut: the worker holding it, 0 when free
    main,               \* the caller: "idle", or inside run: "spawned", "joining"
    target, num_threads,\* the arguments of the current (or last) run
    run_ret,            \* what the last run returned
    nruns,              \* run calls made so far
    all_stages_to_run, ready, indeg_for_run, remaining_jobs, failed,
    mut,                \* holder of run's std::mutex mut (0: free)
    pc, curr, result,   \* per worker thread: position, popped key, computed value
    started,            \* per key: invocations of its run() in this run
    raised,             \* the (key, exception) pairs thrown in this run
    enqueued,           \* per key: pushes into ready in this run
    finished,           \* keys whose downstream update was applied in this run
    published           \* keys some run of this pipeline wrote to the store

graph_vars == <<stages, downstream_edges, upstream_edges, in_degree>>
build_vars == <<add_call, add_ret, ncalls>>
call_vars == <<main, target, num_threads, run_ret, nruns>>
sched_vars == <<all_stages_to_run, ready, indeg_for_run, remaining_jobs, failed, mut>>
thread_vars == <<pc, curr, result>>
hist_vars == <<started, raised, enqueued, finished, published>>
vars == <<graph_vars, stage_results, ctx_mut, build_vars, hc, call_vars, sched_vars,
          thread_vars, hist_vars>>

Graph ==
    [stages |-> stages, downstream_edges |-> downstream_edges,
     upstream_edges |-> upstream_edges, in_degree |-> in_degree]

\* ---------------------------------------------------------------- programs
\* Builder call sequences the run specification starts from (the pipelines of
\* test/pipeline_tests.cpp, a failing stage, and hand-made ports).
ProgChain ==
    << SourceCall("src", "src"),
       UnaryCall("incr", "incr", Port("src", IntT)),
       UnaryCall("triple", "triple", Port("incr", IntT)),
       SourceCall("src", "boom0") >>

ProgDiamond ==
    << SourceCall("src", "src"),
       UnaryCall("increment", "incr", Port("src", IntT)),
       UnaryCall("triple", "triple", Port("src", IntT)),
       JoinCall("join", Port("increment", IntT), Port("triple", IntT)),
       UnaryCall("sum", "sum", Port("join", PairT(IntT, IntT))),
       SourceCall("other", "src") >>

ProgFailing ==
    << SourceCall("src", "src"),
       UnaryCall("increment", "boom", Port("src", IntT)),
       UnaryCall("triple", "triple", Port("src", IntT)),
       JoinCall("join", Port("increment", IntT), Port("triple", IntT)),
       UnaryCall("sum", "sum", Port("join", PairT(IntT, IntT))) >>

ProgTwoSources ==
    << SourceCall("message", "src"),
       SourceCall("name", "boom0"),
       UnaryCall("upper_msg", "triple", Port("message", IntT)),
       JoinCall("join", Port("upper_msg", IntT), Port("name", IntT)) >>

ProgForged ==
    << SourceCall("src", "src"),
       JoinCall("join", Port("src", IntT), Port("src", IntT)),
       UnaryCall("sum", "sum", Port("join", PairT(IntT, IntT))),
       UnaryCall("incr", "incr", Port("join", IntT)),
       UnaryCall("triple", "triple", Port("ghost", IntT)) >>

Programs == {ProgChain, ProgDiamond, ProgFailing, ProgTwoSources, ProgForged}

\* keys the free builder and the callers of run draw from
BuildKeys == {"a", "b", "c"}
Ghost == "ghost"

\* ------------------------------------------------------------------- init
NoRun ==
    /\ stage_results = <<>>
    /\ ctx_mut = 0
    /\ main = "idle"
    /\ target = Port("", IntT)
    /\ num_threads = 0
    /\ run_ret = NoResult
    /\ nruns = 0
    /\ all_stages_to_run = {}
    /\ ready = <<>>
    /\ indeg_for_run = <<>>
    /\ remaining_jobs = 0
    /\ failed = FALSE
    /\ mut = 0
    /\ pc = <<>>
    /\ curr = <<>>
    /\ result = <<>>
    /\ started = <<>>
    /\ raised = {}
    /\ enqueued = <<>>
    /\ finished = {}
    /\ published = {}

NoCall ==
    /\ add_call = SourceCall("", "")
    /\ add_ret = NoResult
    /\ ncalls = 0

\* Pipeline() followed by one of the programs; run has not been called
Init ==
    /\ \E prog \in Programs :
         LET G == Build(prog)
         IN /\ stages = G.stages
            /\ downstream_edges = G.downstream_edges
            /\ upstream_edges = G.upstream_edges
            /\ in_degree = G.in_degree
    /\ hc \in 0..MaxThreads
    /\ NoCall
    /\ NoRun

\* Pipeline(): all maps empty
InitBuild ==
    /\ stages = <<>>
    /\ downstream_edges = <<>>
    /\ upstream_edges = <<>>
    /\ in_degree = <<>>
    /\ hc = 0
    /\ NoCall
    /\ NoRun

\* ---------------------------------------------------------- builder calls
\* the caller is outside run and still has calls to make
CanCall == main = "idle" /\ ncalls < MaxCalls

\* the effect of one builder call c that returned r
Commit(c, r) ==
    /\ stages' = r.g.stages
    /\ downstream_edges' = r.g.downstream_edges
    /\ upstream_edges' = r.g.upstream_edges
    /\ in_degree' = r.g.in_degree
    /\ add_ret' = r.ret
    /\ add_call' = c
    /\ ncalls' = ncalls + 1
    /\ UNCHANGED <<stage_results, hc, ctx_mut, call_vars, sched_vars, thread_vars, hist_vars>>

AddSource ==
    \E id \in BuildKeys, f \in SourceFuncs :
        /\ CanCall
        /\ Commit(SourceCall(id, f), add_source(Graph, id, f))

AddStage ==
    \E id \in BuildKeys, f \in UnaryFuncs, up \in BuildKeys :
        /\ CanCall
        /\ Commit(UnaryCall(id, f, Port(up, InType(f))),
                  add_stage(Graph, id, f, Port(up, InType(f))))

Join ==
    \E id \in BuildKeys, u1 \in BuildKeys, u2 \in BuildKeys,
       T1 \in PortTypes, T2 \in PortTypes :
        /\ CanCall
        /\ Commit(JoinCall(id, Port(u1, T1), Port(u2, T2)),
                  join(Graph, id, Port(u1, T1), Port(u2, T2)))

NextBuild == AddSource \/ AddStage \/ Join

SpecBuild == InitBuild /\ [][NextBuild]_vars

\* ---------------------------------------------------------------- run
\* every order in which a range-for over an unordered_set can visit S
Orders(S) ==
    {q \in [1..Cardinality(S) -> S] : \A i, j \in 1..Cardinality(S) : q[i] = q[j] => i = j}

\* the ports a caller can hand to run: any key, registered or not, any tag
Targets == {Port(id, T) : id \in DOMAIN stages \cup {Ghost}, T \in PortTypes}

CanRun == main = "idle" /\ nruns < MaxRuns

\* a new invocation of run: the previous invocation's locals are gone
FreshLocals ==
    /\ all_stages_to_run' = {}
    /\ ready' = <<>>
    /\ indeg_for_run' = <<>>
    /\ remaining_jobs' = 0
    /\ failed' = FALSE
    /\ mut' = 0
    /\ pc' = <<>>
    /\ curr' = <<>>
    /\ result' = <<>>
    /\ started' = <<>>
    /\ raised' = {}
    /\ enqueued' = <<>>
    /\ finished' = {}
    /\ published' = published

\* run(stage, num_threads) returning at the thread-count test
RunInvalidThreadCount ==
    \E port \in Targets, n \in 0..MaxThreads :
        /\ CanRun
        /\ InvalidThreadCount(n, hc)
        /\ target' = port
        /\ num_threads' = n
        /\ nruns' = nruns + 1
        /\ run_ret' = Unexpected("InvalidThreadCount")
        /\ FreshLocals
        /\ UNCHANGED <<graph_vars, stage_results, build_vars, hc, ctx_mut, main>>

\* run(stage, num_threads) returning because the closure hit an unknown key
RunUnknownStage ==
    \E port \in Targets, n \in 0..MaxThreads :
        /\ CanRun
        /\ ~InvalidThreadCount(n, hc)
        /\ ~get_all_upstream_stages(upstream_edges, port.id).ok
        /\ stage_results' = clear(stage_results)
        /\ target' = port
        /\ num_threads' = n
        /\ nruns' = nruns + 1
        /\ run_ret' = Unexpected("UnknownStage")
        /\ FreshLocals
        /\ UNCHANGED <<graph_vars, build_vars, hc, ctx_mut, main>>

\* run(stage, num_threads) up to the spawning of the worker threads
RunStart ==
    \E port \in Targets, n \in 0..MaxThreads :
        /\ CanRun
        /\ ~InvalidThreadCount(n, hc)
        /\ LET c == get_all_upstream_stages(upstream_edges, port.id)
               S == c.graph
           IN /\ c.ok
              /\ all_stages_to_run' = S
              /\ indeg_for_run' = [k \in S |-> in_degree[k]]
              /\ ready' \in Orders(InitiallyReady(S, indeg_for_run'))
              /\ remaining_jobs' = Cardinality(S)
              /\ started' = [k \in S |-> 0]
              /\ enqueued' = [k \in S |->
                                Cardinality({i \in DOMAIN ready' : ready'[i] = k})]
        /\ stage_results' = clear(stage_results)
        /\ target' = port
        /\ num_threads' = n
        /\ nruns' = nruns + 1
        /\ failed' = FALSE
        /\ mut' = 0
        /\ pc' = [w \in 1..n |-> "lock"]
        /\ curr' = [w \in 1..n |-> ""]
        /\ result' = [w \in 1..n |-> [type |-> <<>>, val |-> <<>>]]
        /\ raised' = {}
        /\ finished' = {}
        /\ published' = published
        /\ main' = "spawned"
        /\ run_ret' = NoResult
        /\ UNCHANGED <<graph_vars, build_vars, hc, ctx_mut>>

\* thread ids; the threads of the current run are those of DOMAIN pc
Threads == 1..MaxThreads
Workers == DOMAIN pc
Running == main # "idle"

\* waiting_workers.notify_all() by thread w, which moves on to position p
NotifyAll(w, p) ==
    [x \in DOMAIN pc |->
        IF x = w THEN p ELSE IF pc[x] = "blocked" THEN "lock" ELSE pc[x]]

\* lock mut and evaluate the wait predicate (also after a wake-up)
Wait(w) ==
    /\ Running
    /\ w \in Workers
    /\ pc[w] = "lock"
    /\ mut = 0
    /\ mut' = w
    /\ pc' = [pc EXCEPT ![w] =
                IF WaitPredicate(failed, ready, remaining_jobs)
                THEN "check" ELSE "prewait"]
    /\ UNCHANGED <<graph_vars, stage_results, build_vars, hc, ctx_mut, call_vars,
                   all_stages_to_run, ready, indeg_for_run, remaining_jobs, failed,
                   curr, result, hist_vars>>

\* the predicate was false: condition_variable::wait unlocks mut and blocks
Block(w) ==
    /\ Running
    /\ w \in Workers
    /\ pc[w] = "prewait"
    /\ mut' = 0
    /\ pc' = [pc EXCEPT ![w] = "blocked"]
    /\ UNCHANGED <<graph_vars, stage_results, build_vars, hc, ctx_mut, call_vars,
                   all_stages_to_run, ready, indeg_for_run, remaining_jobs, failed,
                   curr, result, hist_vars>>

\* a blocked thread may wake without a notification
SpuriousWakeup(w) ==
    /\ Running
    /\ w \in Workers
    /\ pc[w] = "blocked"
    /\ pc' = [pc EXCEPT ![w] = "lock"]
    /\ UNCHANGED <<graph_vars, stage_results, build_vars, hc, ctx_mut, call_vars,
                   sched_vars, curr, result, hist_vars>>

\* after the wait: return, or pop the front of ready; unlock mut
Check(w) ==
    /\ Running
    /\ w \in Workers
    /\ pc[w] = "check"
    /\ mut' = 0
    /\ IF ShouldExit(failed, remaining_jobs)
       THEN /\ pc' = [pc EXCEPT ![w] = "done"]
            /\ UNCHANGED <<ready, curr>>
       ELSE /\ curr' = [curr EXCEPT ![w] = Head(ready)]
            /\ ready' = Tail(ready)
            /\ pc' = [pc EXCEPT ![w] = "popped"]
    /\ UNCHANGED <<graph_vars, stage_results, build_vars, hc, ctx_mut, call_vars,
                   all_stages_to_run, indeg_for_run, remaining_jobs, failed,
                   result, hist_vars>>

\* std::lock_guard lg(context.mut) that does not wait for the mutex
lock_guard_unlocked(holder) == TRUE

\* std::lock_guard lg(context.mut): the constructor returns once the mutex is free
lock_guard(holder) == holder = 0

\* does this stage's run() start with a locked read of the store?
ReadsStore(st) == st.kind # "Stage0"

\* a stage's std::lock_guard lg(context.mut), before its reads or its write
LockStore(w) ==
    /\ Running
    /\ w \in Workers
    /\ \/ pc[w] = "popped" /\ ReadsStore(stages[curr[w]])
       \/ pc[w] = "publish"
    /\ lock_guard(ctx_mut)
    /\ ctx_mut' = w
    /\ pc' = [pc EXCEPT ![w] = IF pc[w] = "popped" THEN "reading" ELSE "writing"]
    /\ UNCHANGED <<graph_vars, stage_results, build_vars, hc, call_vars,
                   sched_vars, curr, result, hist_vars>>

\* stages.at(curr)->run(context): load the inputs under context.mut, unlock,
\* and invoke the function
Execute(w) ==
    /\ Running
    /\ w \in Workers
    /\ \/ pc[w] = "popped" /\ ~ReadsStore(stages[curr[w]])
       \/ pc[w] = "reading"
    /\ ctx_mut' = IF pc[w] = "reading" THEN 0 ELSE ctx_mut
    /\ LET r == IStage_run(stages[curr[w]], stage_results)
       IN IF r.threw # ""
          THEN /\ pc' = [pc EXCEPT ![w] = "caught"]
               /\ raised' = raised \cup {<<curr[w], r.threw>>}
               /\ UNCHANGED result
          ELSE /\ pc' = [pc EXCEPT ![w] = "publish"]
               /\ result' = [result EXCEPT ![w] = [type |-> r.type, val |-> r.val]]
               /\ UNCHANGED raised
    /\ started' = [started EXCEPT ![curr[w]] = @ + 1]
    /\ UNCHANGED <<graph_vars, stage_results, build_vars, hc, call_vars,
                   sched_vars, curr, enqueued, finished, published>>

\* the end of IStage::run: context.stage_results[stage] = result, and unlock
Publish(w) ==
    /\ Running
    /\ w \in Workers
    /\ pc[w] = "writing"
    /\ stage_results' = StoreWrite(stage_results, stages[curr[w]].stage, result[w])
    /\ published' = published \cup {stages[curr[w]].stage}
    /\ ctx_mut' = 0
    /\ pc' = [pc EXCEPT ![w] = "update"]
    /\ UNCHANGED <<graph_vars, build_vars, hc, call_vars, sched_vars,
                   curr, result, started, raised, enqueued, finished>>

\* catch (...): failed = true
Catch(w) ==
    /\ Running
    /\ w \in Workers
    /\ pc[w] = "caught"
    /\ failed' = TRUE
    /\ pc' = [pc EXCEPT ![w] = "notify_failed"]
    /\ UNCHANGED <<graph_vars, stage_results, build_vars, hc, ctx_mut, call_vars,
                   all_stages_to_run, ready, indeg_for_run, remaining_jobs, mut,
                   curr, result, hist_vars>>

\* catch (...): notify_all and return
NotifyFailed(w) ==
    /\ Running
    /\ w \in Workers
    /\ pc[w] = "notify_failed"
    /\ pc' = NotifyAll(w, "done")
    /\ UNCHANGED <<graph_vars, stage_results, build_vars, hc, ctx_mut, call_vars,
                   sched_vars, curr, result, hist_vars>>

\* under mut: decrement the in-degree of the downstream stages
Update(w) ==
    /\ Running
    /\ w \in Workers
    /\ pc[w] = "update"
    /\ mut = 0
    /\ LET m == MakeReady(downstream_edges[curr[w]], all_stages_to_run,
                          indeg_for_run, ready)
       IN /\ indeg_for_run' = m.indeg
          /\ ready' = m.ready
          /\ enqueued' = [k \in DOMAIN enqueued |->
                enqueued[k]
                + Cardinality({i \in DOMAIN m.ready : i > Len(ready) /\ m.ready[i] = k})]
    /\ finished' = finished \cup {curr[w]}
    /\ pc' = [pc EXCEPT ![w] = "fetch_sub"]
    /\ UNCHANGED <<graph_vars, stage_results, build_vars, hc, ctx_mut, call_vars,
                   all_stages_to_run, remaining_jobs, failed, mut,
                   curr, result, started, raised, published>>

\* remaining_jobs.fetch_sub(1)
FetchSub(w) ==
    /\ Running
    /\ w \in Workers
    /\ pc[w] = "fetch_sub"
    /\ remaining_jobs' = remaining_jobs - 1
    /\ pc' = [pc EXCEPT ![w] = "notify"]
    /\ UNCHANGED <<graph_vars, stage_results, build_vars, hc, ctx_mut, call_vars,
                   all_stages_to_run, ready, indeg_for_run, failed, mut,
                   curr, result, hist_vars>>

\* notify_all at the end of the loop body, then loop
Notify(w) ==
    /\ Running
    /\ w \in Workers
    /\ pc[w] = "notify"
    /\ pc' = NotifyAll(w, "lock")
    /\ UNCHANGED <<graph_vars, stage_results, build_vars, hc, ctx_mut, call_vars,
                   sched_vars, curr, result, hist_vars>>

\* the caller's notify_all after spawning the threads
MainNotify ==
    /\ main = "spawned"
    /\ main' = "joining"
    /\ pc' = NotifyAll(0, "")
    /\ UNCHANGED <<graph_vars, stage_results, build_vars, hc, ctx_mut,
                   target, num_threads, run_ret, nruns,
                   sched_vars, curr, result, hist_vars>>

\* all threads joined: run returns
RunReturn ==
    /\ main = "joining"
    /\ \A w \in Workers : pc[w] = "done"
    /\ main' = "idle"
    /\ run_ret' = RunResult(failed, stage_results, target)
    /\ UNCHANGED <<graph_vars, stage_results, build_vars, hc, ctx_mut,
                   target, num_threads, nruns,
                   sched_vars, thread_vars, hist_vars>>

WorkerStep(w) ==
    \/ Wait(w) \/ Block(w) \/ Check(w) \/ LockStore(w) \/ Execute(w) \/ Publish(w)
    \/ Catch(w) \/ NotifyFailed(w) \/ Update(w) \/ FetchSub(w) \/ Notify(w)

Next ==
    \/ RunInvalidThreadCount \/ RunUnknownStage \/ RunStart
    \/ MainNotify \/ RunReturn
    \/ \E w \in Threads : WorkerStep(w)
    \/ \E w \in Threads : SpuriousWakeup(w)

Spec == Init /\ [][Next]_vars

\* free builder calls and runs, in any order, on one pipeline
NextAll == NextBuild \/ Next

\* Pipeline() followed by add_stage("a", src); the caller has one run left
InitAll ==
    /\ LET c == SourceCall("a", "src")
           r == ApplyCall(EmptyGraph, c)
       IN /\ stages = r.g.stages
          /\ downstream_edges = r.g.downstream_edges
          /\ upstream_edges = r.g.upstream_edges
          /\ in_degree = r.g.in_degree
          /\ add_call = c
          /\ add_ret = r.ret
    /\ ncalls = 1
    /\ stage_results = <<>>
    /\ ctx_mut = 0
    /\ hc = 0
    /\ main = "idle"
    /\ target = Port("", IntT)
    /\ num_threads = 0
    /\ run_ret = NoResult
    /\ nruns = MaxRuns - 1
    /\ all_stages_to_run = {}
    /\ ready = <<>>
    /\ indeg_for_run = <<>>
    /\ remaining_jobs = 0
    /\ failed = FALSE
    /\ mut = 0
    /\ pc = <<>>
    /\ curr = <<>>
    /\ result = <<>>
    /\ started = <<>>
    /\ raised = {}
    /\ enqueued = <<>>
    /\ finished = {}
    /\ published = {}

SpecAll == InitAll /\ [][NextAll]_vars

\* The threads are scheduled fairly: the caller and every worker thread keep
\* taking steps, and a thread that finds mut free again and again gets it
\* (strong fairness).  A spurious wake-up is never owed.
FairSpec ==
    /\ Spec
    /\ WF_vars(MainNotify)
    /\ WF_vars(RunReturn)
    /\ \A w \in Threads : SF_vars(WorkerStep(w))

\* ------------------------------------------------------------------ claims
\* the last run spawned its workers, joined them and returned
Completed == main = "idle" /\ Workers # {}

\* stage k's run() is invoked in this step
StartsNow(k) ==
    /\ Running
    /\ k \in DOMAIN started
    /\ k \in DOMAIN started'
    /\ started'[k] = started[k] + 1

\* the declared output type of a registered stage, as its builder port has it
OutType(st) ==
    IF st.kind = "JoinStage" THEN PairT(st.ins[1], st.ins[2]) ELSE IntT

RECURSIVE Eval(_)
\* the value of stage k, evaluating the stage functions in dependency order
Eval(k) ==
    LET st == stages[k]
    IN CASE st.kind = "Stage0" -> Invoke(st.func, <<>>)
         [] st.kind = "Stage1" -> Invoke(st.func, Eval(st.deps[1]))
         [] OTHER -> <<Eval(st.deps[1]), Eval(st.deps[2])>>

\* the producers stage k reads
Producers(k) ==
    IF k \in DOMAIN upstream_edges
    THEN {upstream_edges[k][i] : i \in DOMAIN upstream_edges[k]}
    ELSE {}

RECURSIVE Reach(_)
\* the keys reachable from the keys of S along upstream edges, S included
Reach(S) ==
    LET N == S \cup UNION {Producers(k) : k \in S}
    IN IF N = S THEN S ELSE Reach(N)

\* no stage reaches itself along upstream edges
Acyclic == \A k \in DOMAIN upstream_edges : k \notin Reach(Producers(k))

\* occurrences of x in the edge list m keeps for key a
Count(m, a, x) ==
    IF a \in DOMAIN m THEN Cardinality({i \in DOMAIN m[a] : m[a][i] = x}) ELSE 0

\* the number of input ports a stage of this kind has
Arity(st) ==
    CASE st.kind = "Stage0" -> 0
      [] st.kind = "Stage1" -> 1
      [] OTHER -> 2

\* C1: under fair scheduling of the threads, every run that has spawned its
\* workers eventually joins them all and returns.
C1_RunTerminates == (main # "idle") ~> (main = "idle")

\* C2: a run in which no stage fails, on the port the builder returned for the
\* target, returns the value obtained by evaluating the stage functions in
\* dependency order, whatever the worker count and interleaving; the chain
\* returns 18 and the diamond 21.
C2_DeterministicOutput ==
    (Completed /\ raised = {} /\ target.type = OutType(stages[target.id])) =>
        /\ run_ret = OkValue(Eval(target.id))
        /\ (Graph = Build(ProgChain) /\ target.id = "triple")
              => run_ret = OkValue(IntV(18))
        /\ (Graph = Build(ProgDiamond) /\ target.id = "sum")
              => run_ret = OkValue(IntV(21))

C2_Witness ==
    /\ Completed
    /\ raised = {}
    /\ num_threads = 2
    /\ Graph = Build(ProgDiamond)
    /\ target = Port("sum", IntT)
    /\ run_ret = OkValue(IntV(21))

\* C3: a stage's run() is invoked only when every producer listed in its
\* upstream edges has already published its result in the store.
C3_ProducersFirst ==
    [][\A k \in DOMAIN stages :
          StartsNow(k) => \A u \in Producers(k) : u \in DOMAIN stage_results]_vars

C3_Witness ==
    /\ Running
    /\ num_threads = 2
    /\ "join" \in DOMAIN started
    /\ started["join"] = 1
    /\ Producers("join") = {"increment", "triple"}
    /\ \E w \in Workers : pc[w] = "publish" /\ curr[w] = "join"

\* C4: a run in which no stage fails executes every stage of the upstream
\* closure of the target exactly once and no stage outside it.
C4_ExactlyClosureOnce ==
    (Completed /\ raised = {}) =>
        \A k \in DOMAIN stages :
            IF k \in Reach({target.id})
            THEN k \in DOMAIN started /\ started[k] = 1
            ELSE k \notin DOMAIN started

C4_Witness ==
    /\ Completed
    /\ raised = {}
    /\ Graph = Build(ProgDiamond)
    /\ target.id = "join"
    /\ DOMAIN started = {"src", "increment", "triple", "join"}
    /\ started["src"] = 1

\* C5: once the failed flag is set, no worker invokes another stage's run().
C5_FailFast ==
    [][failed => \A k \in DOMAIN stages : ~StartsNow(k)]_vars

\* C6: when a stage of the closure has raised, run returns RuntimeError, for
\* every worker count, and the store holds no entry for the raising stage nor
\* for the target.
C6_FailureIsRuntimeError ==
    (Completed /\ raised # {}) =>
        /\ run_ret = Unexpected("RuntimeError")
        /\ \A r \in raised : r[1] \notin DOMAIN stage_results
        /\ target.id \notin DOMAIN stage_results

C6_Witness ==
    /\ Completed
    /\ num_threads = 2
    /\ raised = {<<"increment", "user">>}
    /\ target.id = "sum"
    /\ "triple" \in DOMAIN stage_results
    /\ run_ret = Unexpected("RuntimeError")

\* C7: a builder call that returns an error leaves stages, downstream_edges,
\* upstream_edges and in_degree as they were.
C7_FailedAddNoMutation ==
    [][(ncalls' = ncalls + 1 /\ add_ret'.kind = "error") =>
          UNCHANGED graph_vars]_vars

C7_Witness ==
    /\ ncalls = 3
    /\ add_ret = Unexpected("UnknownStage")
    /\ add_call.op = "join"
    /\ add_call.ports[1].id \in DOMAIN stages
    /\ add_call.ports[2].id \notin DOMAIN stages
    /\ Cardinality(DOMAIN stages) = 2

\* C8: every constructor returns StageAlreadyExists when the key is
\* registered, else UnknownStage when a port names an unregistered key (its
\* own key included), else registers the key and returns a port carrying it.
C8_ConstructorResult ==
    [][ncalls' = ncalls + 1 =>
          LET c == add_call'
              known == DOMAIN stages
          IN IF c.id \in known
             THEN add_ret' = Unexpected("StageAlreadyExists")
             ELSE IF \E i \in DOMAIN c.ports : c.ports[i].id \notin known
             THEN add_ret' = Unexpected("UnknownStage")
             ELSE /\ add_ret'.kind = "port"
                  /\ add_ret'.id = c.id
                  /\ DOMAIN stages' = known \cup {c.id}]_vars

C8_Witness ==
    /\ add_call.op = "unary"
    /\ add_call.ports[1].id = add_call.id
    /\ add_call.id \notin DOMAIN stages
    /\ add_ret = Unexpected("UnknownStage")
    /\ DOMAIN stages # {}

\* C9: run returns InvalidThreadCount, starting no thread, exactly when
\* num_threads is 0 or hardware_concurrency() is non-zero and smaller than
\* num_threads.
C9_ThreadCountBounds ==
    [][nruns' = nruns + 1 =>
          IF num_threads' = 0 \/ (hc # 0 /\ num_threads' > hc)
          THEN /\ run_ret' = Unexpected("InvalidThreadCount")
               /\ main' = "idle"
               /\ pc' = <<>>
               /\ started' = <<>>
          ELSE /\ run_ret' # Unexpected("InvalidThreadCount")
               /\ num_threads' >= 1
               /\ (hc # 0 => num_threads' <= hc)]_vars

C9_Witness ==
    /\ hc = 1
    /\ num_threads = 2
    /\ target.id \in DOMAIN stages
    /\ run_ret = Unexpected("InvalidThreadCount")
    /\ main = "idle"

\* C10: when a stage's input fails to reify to its declared input type, run
\* returns TypeMismatch.
C10_InputMismatchSurfaces ==
    (Completed /\ \E r \in raised : r[2] = "bad_any_cast") =>
        run_ret = Unexpected("TypeMismatch")

\* C11: when every stage of a run completed without failure and the value
\* stored under the target's key does not have the type T of the port handed
\* to run, run returns TypeMismatch.
C11_ResultTypeMismatch ==
    (/\ Completed
     /\ ~failed
     /\ raised = {}
     /\ target.id \in DOMAIN stage_results
     /\ stage_results[target.id].type # target.type) =>
        run_ret = Unexpected("TypeMismatch")

C11_Witness ==
    /\ Completed
    /\ ~failed
    /\ raised = {}
    /\ Cardinality(all_stages_to_run) >= 3
    /\ DOMAIN stage_results = all_stages_to_run
    /\ stages[target.id].kind = "JoinStage"
    /\ target.type = IntT
    /\ stage_results[target.id].type # IntT
    /\ run_ret = Unexpected("TypeMismatch")

\* C12: run on a port whose key is not registered, with a valid worker
\* count, returns UnknownStage, executes no stage and spawns no worker, and
\* leaves the four graph maps as they were.
C12_UnknownTarget ==
    [][(/\ nruns' = nruns + 1
        /\ ~(num_threads' = 0 \/ (hc # 0 /\ num_threads' > hc))
        /\ target'.id \notin DOMAIN stages) =>
          /\ run_ret' = Unexpected("UnknownStage")
          /\ main' = "idle"
          /\ pc' = <<>>
          /\ started' = <<>>
          /\ UNCHANGED graph_vars]_vars

C12_Witness ==
    /\ target.id = Ghost
    /\ num_threads = 2
    /\ hc = 2
    /\ nruns = 2
    /\ run_ret = Unexpected("UnknownStage")
    /\ main = "idle"
    /\ pc = <<>>
    /\ Cardinality(DOMAIN stages) >= 3

\* C13: every invocation of run clears the result store at its start, the
\* invocations that return an error included.
C13_EveryRunClears ==
    [][nruns' = nruns + 1 => stage_results' = <<>>]_vars

\* C14: after every add_stage or join call, successful or failed, the upstream
\* graph is acyclic: a key new in upstream is wired only to keys that were
\* registered before the call (so never to itself), and the edges of the keys
\* registered earlier stay as they were.
C14_Acyclic ==
    [][ncalls' = ncalls + 1 =>
          /\ \A k \in DOMAIN upstream_edges' \ DOMAIN upstream_edges :
                \A i \in DOMAIN upstream_edges'[k] :
                    /\ upstream_edges'[k][i] \in DOMAIN stages
                    /\ upstream_edges'[k][i] # k
          /\ \A k \in DOMAIN upstream_edges :
                /\ k \in DOMAIN upstream_edges'
                /\ upstream_edges'[k] = upstream_edges[k]
          /\ Acyclic']_vars

C14_Witness ==
    /\ ncalls = 3
    /\ add_ret.kind = "port"
    /\ stages[add_ret.id].kind = "JoinStage"
    /\ Cardinality(Producers(add_ret.id)) = 2
    /\ \E k \in Producers(add_ret.id) : Producers(k) # {}
    /\ Cardinality(Reach({add_ret.id})) = 3

\* C15: downstream and upstream mirror each other: for all keys u and k, k
\* occurs in downstream[u] as often as u occurs in upstream[k], a join wired to
\* one port twice included.
C15_EdgesMirror ==
    \A u \in BuildKeys, k \in BuildKeys :
        Count(downstream_edges, u, k) = Count(upstream_edges, k, u)

C15_Witness ==
    \E u \in DOMAIN stages, k \in DOMAIN stages :
        /\ stages[k].kind = "JoinStage"
        /\ Count(downstream_edges, u, k) = 2
        /\ Count(upstream_edges, k, u) = 2
        /\ \E j \in DOMAIN stages : Count(downstream_edges, k, j) = 1

\* C16: in_degree[k] is the length of upstream[k] for every registered key k
\* (0 for a source, 1 for a unary stage, 2 for a join), and a step of run
\* never changes in_degree.
C16_InDegree ==
    [][/\ \A k \in DOMAIN stages' :
            /\ in_degree'[k] = Len(upstream_edges'[k])
            /\ in_degree'[k] = Arity(stages'[k])
       /\ ncalls' = ncalls => in_degree' = in_degree]_vars

C16_Witness ==
    /\ Completed
    /\ run_ret.kind = "value"
    /\ \E k \in all_stages_to_run :
         /\ in_degree[k] = 2
         /\ indeg_for_run[k] = 0
         /\ Cardinality(Producers(k)) = 2
    /\ \E k \in all_stages_to_run : in_degree[k] = 0

\* C17: after any sequence of add_stage, join and run calls the maps stages,
\* downstream, upstream and in_degree have the same key set, and every key of
\* the closure of a run, every key a worker holds included, is in it.
C17_SameKeys ==
    /\ DOMAIN downstream_edges = DOMAIN stages
    /\ DOMAIN upstream_edges = DOMAIN stages
    /\ DOMAIN in_degree = DOMAIN stages
    /\ all_stages_to_run \subseteq DOMAIN stages
    /\ DOMAIN indeg_for_run \subseteq DOMAIN stages
    /\ \A i \in DOMAIN ready : ready[i] \in DOMAIN stages
    /\ \A w \in Workers : curr[w] # "" => curr[w] \in DOMAIN stages

C17_Witness ==
    /\ Running
    /\ add_ret.kind = "error"
    /\ Cardinality(DOMAIN stages) = 2
    /\ \E w \in Workers :
         /\ pc[w] = "update"
         /\ downstream_edges[curr[w]] # <<>>

\* C18: during a run, for every stage k of the closure the per-run counter
\* indeg_for_run[k] is never negative and is the number of entries of
\* upstream[k] whose producer has not yet applied its downstream update, and k
\* has been pushed into ready exactly when that number is 0, a join wired to
\* one port twice included.
C18_RemainingInputs ==
    \A k \in all_stages_to_run :
        /\ indeg_for_run[k] >= 0
        /\ indeg_for_run[k] =
              Cardinality({i \in DOMAIN upstream_edges[k] :
                              upstream_edges[k][i] \notin finished})
        /\ enqueued[k] >= 1 <=> indeg_for_run[k] = 0

C18_Witness ==
    /\ Running
    /\ \E k \in all_stages_to_run :
         /\ Len(upstream_edges[k]) = 2
         /\ upstream_edges[k][1] = upstream_edges[k][2]
         /\ upstream_edges[k][1] \in finished
         /\ indeg_for_run[k] = 0
         /\ enqueued[k] = 1
         /\ \E j \in all_stages_to_run : indeg_for_run[j] = 1 /\ enqueued[j] = 0

\* C19: the ready queue never holds a key twice, and each key of the closure
\* is pushed into ready at most once in a run.
C19_ReadyDistinct ==
    /\ \A i, j \in DOMAIN ready : ready[i] = ready[j] => i = j
    /\ \A k \in all_stages_to_run : enqueued[k] <= 1

C19_Witness ==
    /\ Running
    /\ num_threads = 2
    /\ Len(ready) = 1
    /\ Cardinality(Producers(ready[1])) = 2
    /\ Producers(ready[1]) \subseteq finished
    /\ enqueued[ready[1]] = 1

\* C20: when a run returns a value, remaining_jobs is 0, ready is empty, no
\* stage is in flight, and the keys of the result store are exactly the
\* closure of the target, whatever an earlier run on the pipeline stored.
C20_SuccessfulRunState ==
    (Completed /\ run_ret.kind = "value") =>
        /\ remaining_jobs = 0
        /\ ready = <<>>
        /\ \A w \in Workers : pc[w] = "done"
        /\ \A k \in all_stages_to_run : started[k] = 1 /\ k \in finished
        /\ all_stages_to_run = Reach({target.id})
        /\ DOMAIN stage_results = all_stages_to_run

C20_Witness ==
    /\ Completed
    /\ run_ret.kind = "value"
    /\ nruns = 2
    /\ published \ all_stages_to_run # {}
    /\ DOMAIN stage_results = Reach({target.id})
    /\ Cardinality(DOMAIN stage_results) >= 2

\* C21: during a run no two workers are inside a store access at once: a
\* worker that is reading its inputs or writing its result holds context.mut;
\* every change of the store in a run is one worker writing, under the lock,
\* the key of the stage it executes; and a stage reads its inputs under the
\* lock after their producers wrote them.
C21_StoreLocked ==
    [][/\ \A w \in DOMAIN pc' :
            pc'[w] \in {"reading", "writing"} => ctx_mut' = w
       /\ (nruns' = nruns /\ stage_results' # stage_results) =>
            \E w \in Workers :
                /\ pc[w] = "writing"
                /\ ctx_mut = w
                /\ stages[curr[w]].stage = curr[w]
                /\ DOMAIN stage_results' = DOMAIN stage_results \cup {curr[w]}
                /\ \A k \in DOMAIN stage_results :
                      k # curr[w] => stage_results'[k] = stage_results[k]
       /\ \A w \in Workers :
            (StartsNow(curr[w]) /\ pc'[w] # pc[w] /\ ReadsStore(stages[curr[w]])) =>
                /\ pc[w] = "reading"
                /\ ctx_mut = w
                /\ \A i \in DOMAIN stages[curr[w]].deps :
                      /\ stages[curr[w]].deps[i] \in DOMAIN stage_results
                      /\ stages[curr[w]].deps[i] \in published]_vars

C21_Witness ==
    /\ Running
    /\ pc = <<"writing", "popped">>
    /\ ctx_mut = 1
    /\ ReadsStore(stages[curr[2]])
    /\ stages[curr[1]].deps = stages[curr[2]].deps
    /\ curr[1] # curr[2]

====
